---- MODULE Spec2Model ----
(***************************************************************************)
(* Model of the status scanner in src/src/main.rs: main() builds one future *)
(* per (ip, port) of the input list and drives them with join_all; each     *)
(* future is perform_scan() followed by unwrap().                           *)
(*                                                                          *)
(* Bytes are the integers 0..255, byte strings are sequences of them.       *)
(* Every probe step between two .await points is one action.                *)
(***************************************************************************)
EXTENDS Integers, Sequences, FiniteSets, TLC

VARIABLES
    debug,      \* cfg(debug_assertions) of the build
    endpoints,  \* the (ip, port) pairs of the input list, flattened in order
    main,       \* position of main(): "start", "join", "done", "panicked"
    futures,    \* the vector of futures handed to join_all (their endpoints)
    pc,         \* position of each future
    err,        \* why a future ended in Failed or Panicked ("none" otherwise)
    srv,        \* the remote peer and the connection of each endpoint
    sent,       \* bytes the connection accepted from the two write calls
    response,   \* the accumulator `response`, later the frozen, advanced Bytes
    result,     \* outcome of the latest timeout(read) of the loop
    wclosed,    \* whether stream.shutdown() has completed
    motd,       \* the decoded MOTD: <<>> before decoding, <<m>> after
    made,       \* paths each future has created with File::create
    wrote,      \* paths each future has written with write_all
    files       \* the output directory: path -> None, or Some(content)

vars == <<debug, endpoints, main, futures, pc, err, srv, sent,
          response, result, wclosed, motd, made, wrote, files>>

----------------------------------------------------------------------------
(* Bounds of the model                                                      *)

\* longest input list of endpoints
MaxEndpoints == 2
\* longest arbitrary (non-JSON) payload a peer puts behind the three varints
MaxPayloadLen == 2
\* bytes of an endless peer that are recorded in the accumulator
FloodCap == 3
\* longest host name of the endpoints whose packets are examined
MaxHostLen == 129
\* the values 0..MaxDenseValue are all encoded; above them, the values around
\* each change of the encoded length
MaxDenseValue == 300

----------------------------------------------------------------------------
(* Program constants                                                        *)

\* handshake_data.put_vi(760), response.version.protocol != 760
ProtocolVersion == 760
\* response.players.max != 50
PlayerCap == 50
\* let mut buffer = [0u8; 0xFF]
ScratchSize == 255
\* &favicon[22..]
FaviconPrefixLen == 22
\* while count < 3
FieldCount == 3
\* handshake_data.put_vi(1)
NextState == 1

\* the range of u8 and of each half of a u16
U8 == 256

----------------------------------------------------------------------------
(* Byte strings                                                             *)

Min(a, b) == IF a < b THEN a ELSE b

Drop(s, n) == SubSeq(s, n + 1, Len(s))
Take(s, n) == SubSeq(s, 1, n)

Repeat(b, n) == [i \in 1..n |-> b]

RECURSIVE Decimal(_)
\* the decimal digits of a natural number, as ASCII
Decimal(n) == IF n < 10 THEN <<48 + n>> ELSE Decimal(n \div 10) \o <<48 + (n % 10)>>

----------------------------------------------------------------------------
(* Varints and outbound packets                                             *)

\* unsigned_varint::decode::is_last: the continuation bit is clear
is_last(b) == b < 128

RECURSIVE encode_u32_late_split(_)
\* an encoder that keeps 128 in one byte
encode_u32_late_split(v) ==
    IF v <= 128 THEN <<v>>
    ELSE <<(v % 128) + 128>> \o encode_u32_late_split(v \div 128)

RECURSIVE encode_u32(_)
\* unsigned_varint::encode::u32: 7 bits per byte, low group first
encode_u32(v) ==
    IF v < 128 THEN <<v>>
    ELSE <<(v % 128) + 128>> \o encode_u32(v \div 128)

\* value: u32; the lengths cast `as u32` are far below 2^32 and cast exactly
put_vi(buf, value) == buf \o encode_u32(value)

put_str(buf, value) == put_vi(buf, Len(value)) \o value

put_u16(buf, port) == buf \o <<(port \div U8) % U8, port % U8>>

handshake_data(ip, port) ==
    put_vi(put_u16(put_str(put_vi(<<>>, ProtocolVersion), ip), port), NextState)

\* a length prefix that leaves out the byte of the packet id
handshake_uncounted_id(ip, port) ==
    put_vi(put_vi(<<>>, Len(handshake_data(ip, port))), 0)
        \o handshake_data(ip, port)

handshake(ip, port) ==
    put_vi(put_vi(<<>>, Len(handshake_data(ip, port)) + 1), 0)
        \o handshake_data(ip, port)

request == put_vi(put_vi(<<>>, 1), 0)

----------------------------------------------------------------------------
(* Frame stripping (perform_scan, the loop `while count < 3`)               *)

\* the index `response[count]` and `advance(1)` both panic outside the buffer
in_range(resp, i) == i < Len(resp)

RECURSIVE strip_one_more(_, _)
\* the outer loop as `while count <= 3`: a fourth field is removed
strip_one_more(resp, count) ==
    IF count > FieldCount THEN [panic |-> FALSE, response |-> resp]
    ELSE IF ~in_range(resp, count) THEN [panic |-> TRUE, response |-> resp]
    ELSE IF ~is_last(resp[count + 1]) THEN strip_one_more(Drop(resp, 1), count)
    ELSE strip_one_more(Drop(resp, 1), count + 1)

RECURSIVE strip(_, _)
\* runs the two nested loops on the frozen buffer from field counter `count`;
\* yields the advanced buffer, or panic = TRUE when an index leaves the buffer
strip(resp, count) ==
    IF count >= FieldCount THEN [panic |-> FALSE, response |-> resp]
    ELSE IF ~in_range(resp, count) THEN [panic |-> TRUE, response |-> resp]
    ELSE IF ~is_last(resp[count + 1]) THEN strip(Drop(resp, 1), count)
    ELSE strip(Drop(resp, 1), count + 1)

----------------------------------------------------------------------------
(* The status payload.  serde_json is modelled on the compact JSON texts of *)
(* the documents below, byte for byte; every other byte string the model    *)
(* hands to from_slice (truncations, shifted tails, arbitrary bytes) is not *)
(* a JSON text of a MOTD and fails to decode.                               *)

None == <<>>
Some(x) == <<x>>

\* {"description":{"text":"A"},"players":{"max":
J_Head == <<123, 34, 100, 101, 115, 99, 114, 105, 112, 116, 105, 111, 110, 34, 58, 123, 34, 116, 101, 120, 116, 34, 58, 34, 65, 34, 125, 44, 34, 112, 108, 97, 121, 101, 114, 115, 34, 58, 123, 34, 109, 97, 120, 34, 58>>
\* ,"online":1},"version":{"name":"1.20","protocol":
J_Online == <<44, 34, 111, 110, 108, 105, 110, 101, 34, 58, 49, 125, 44, 34, 118, 101, 114, 115, 105, 111, 110, 34, 58, 123, 34, 110, 97, 109, 101, 34, 58, 34, 49, 46, 50, 48, 34, 44, 34, 112, 114, 111, 116, 111, 99, 111, 108, 34, 58>>
\* ,"favicon":"
J_FaviconKey == <<44, 34, 102, 97, 118, 105, 99, 111, 110, 34, 58, 34>>
\* the pretty-printed counterparts (two-space indent, "sample": null)
P_Head == <<123, 10, 32, 32, 34, 100, 101, 115, 99, 114, 105, 112, 116, 105, 111, 110, 34, 58, 32, 123, 10, 32, 32, 32, 32, 34, 116, 101, 120, 116, 34, 58, 32, 34, 65, 34, 10, 32, 32, 125, 44, 10, 32, 32, 34, 112, 108, 97, 121, 101, 114, 115, 34, 58, 32, 123, 10, 32, 32, 32, 32, 34, 109, 97, 120, 34, 58, 32>>
P_Online == <<44, 10, 32, 32, 32, 32, 34, 111, 110, 108, 105, 110, 101, 34, 58, 32, 49, 44, 10, 32, 32, 32, 32, 34, 115, 97, 109, 112, 108, 101, 34, 58, 32, 110, 117, 108, 108, 10, 32, 32, 125, 44, 10, 32, 32, 34, 118, 101, 114, 115, 105, 111, 110, 34, 58, 32, 123, 10, 32, 32, 32, 32, 34, 110, 97, 109, 101, 34, 58, 32, 34, 49, 46, 50, 48, 34, 44, 10, 32, 32, 32, 32, 34, 112, 114, 111, 116, 111, 99, 111, 108, 34, 58, 32>>
P_VersionEnd == <<10, 32, 32, 125, 44, 10, 32, 32, 34, 102, 97, 118, 105, 99, 111, 110, 34, 58, 32>>
P_Null == <<110, 117, 108, 108>>
P_Tail == <<10, 125>>

\* data:image/png;base64,AAAA
FavPng == <<100, 97, 116, 97, 58, 105, 109, 97, 103, 101, 47, 112, 110, 103, 59, 98, 97, 115, 101, 54, 52, 44, 65, 65, 65, 65>>
\* data:image/png;base64,
FavPngEmptyBody == <<100, 97, 116, 97, 58, 105, 109, 97, 103, 101, 47, 112, 110, 103, 59, 98, 97, 115, 101, 54, 52, 44>>
\* data:image/jpeg;base64,AAAA
FavJpeg == <<100, 97, 116, 97, 58, 105, 109, 97, 103, 101, 47, 106, 112, 101, 103, 59, 98, 97, 115, 101, 54, 52, 44, 65, 65, 65, 65>>
\* x
FavShort == <<120>>

\* struct MOTD with its nested structs; Option is None or Some(x)
MOTD(max, protocol, favicon) ==
    [description |-> [text |-> <<65>>],
     players     |-> [max |-> max, online |-> 1, sample |-> None],
     version     |-> [name |-> <<49, 46, 50, 48>>, protocol |-> protocol],
     favicon     |-> favicon]

\* the favicon strings and documents of the model's servers
Favicons == {FavPng, FavPngEmptyBody, FavJpeg, FavShort, <<>>}

Documents ==
    {MOTD(mx, pr, fv) : mx \in {PlayerCap, 20}, pr \in {ProtocolVersion, 47},
                        fv \in {None} \cup {Some(f) : f \in Favicons}}

\* the compact JSON text a server sends for a MOTD
JsonText(m) ==
    J_Head \o Decimal(m.players.max) \o J_Online \o Decimal(m.version.protocol)
        \o <<125>>
        \o (IF m.favicon = None THEN <<>>
            ELSE J_FaviconKey \o m.favicon[1] \o <<34>>)
        \o <<125>>

\* serde_json::from_slice::<MOTD>: None is the decode error
from_slice(bytes) ==
    LET hit == {m \in Documents : JsonText(m) = bytes}
    IN  IF hit = {} THEN None ELSE Some(CHOOSE m \in hit : TRUE)

\* serde_json::to_string_pretty(&response)
to_string_pretty(m) ==
    P_Head \o Decimal(m.players.max) \o P_Online \o Decimal(m.version.protocol)
        \o P_VersionEnd
        \o (IF m.favicon = None THEN P_Null ELSE <<34>> \o m.favicon[1] \o <<34>>)
        \o P_Tail

\* the filter without its favicon test
accepts_any_favicon(m) ==
    ~(m.players.max # PlayerCap \/ m.version.protocol # ProtocolVersion)

\* the filter of perform_scan: TRUE when the probe goes on to persist
accepts(m) ==
    ~(m.players.max # PlayerCap \/ m.favicon = None
        \/ m.version.protocol # ProtocolVersion)

----------------------------------------------------------------------------
(* The favicon body.  base64::decode on unpadded bodies over the standard   *)
(* alphabet: a symbol outside the alphabet or a lone trailing symbol is an  *)
(* error.                                                                   *)

b64_value(c) ==
    IF c >= 65 /\ c <= 90 THEN c - 65
    ELSE IF c >= 97 /\ c <= 122 THEN c - 71
    ELSE IF c >= 48 /\ c <= 57 THEN c + 4
    ELSE IF c = 43 THEN 62
    ELSE IF c = 47 THEN 63
    ELSE -1

RECURSIVE b64_groups(_)
b64_groups(s) ==
    IF Len(s) = 0 THEN <<>>
    ELSE IF Len(s) = 2 THEN
        <<(b64_value(s[1]) * 4 + (b64_value(s[2]) \div 16)) % U8>>
    ELSE IF Len(s) = 3 THEN
        LET n == b64_value(s[1]) * 4096 + b64_value(s[2]) * 64 + b64_value(s[3])
        IN  <<(n \div 1024) % U8, (n \div 4) % U8>>
    ELSE
        LET n == b64_value(s[1]) * 262144 + b64_value(s[2]) * 4096
                    + b64_value(s[3]) * 64 + b64_value(s[4])
        IN  <<n \div 65536, (n \div U8) % U8, n % U8>> \o b64_groups(Drop(s, 4))

\* base64::decode: [ok, bytes]
base64_decode(s) ==
    IF (\E i \in 1..Len(s) : b64_value(s[i]) = -1) \/ Len(s) % 4 = 1
    THEN [ok |-> FALSE, bytes |-> <<>>]
    ELSE [ok |-> TRUE, bytes |-> b64_groups(s)]

\* &favicon[22..]: panics when the string is shorter than the prefix
favicon_in_range(favicon) == Len(favicon) >= FaviconPrefixLen

----------------------------------------------------------------------------
(* Output paths and files                                                    *)

\* format!("data/{}.json", ip)
json_path(ip) == <<100, 97, 116, 97, 47>> \o ip \o <<46, 106, 115, 111, 110>>
\* format!("data/{}.png", ip)
png_path(ip) == <<100, 97, 116, 97, 47>> \o ip \o <<46, 112, 110, 103>>

\* write_all on a fresh handle: the bytes land at offset 0 of the content
write_at_start(old, bytes) == bytes \o Drop(old, Min(Len(bytes), Len(old)))

----------------------------------------------------------------------------
(* The remote peers.  A peer holds the response frame it means to send      *)
(* (three varints and a payload, either arbitrary bytes or the JSON text of *)
(* a document), how many bytes of it the reads have been given so far, and  *)
(* how the connection behaves: `flood` peers keep sending the byte 'A' after *)
(* the frame and never close, `sizes` are the most bytes that can be        *)
(* pending when a read returns, `short` connections may accept only part of *)
(* a write.                                                                 *)

Junk(bytes) == [doc |-> None, bytes |-> bytes]
Doc(m) == [doc |-> Some(m), bytes |-> <<>>]

PayloadBytes(p) == IF p.doc = None THEN p.bytes ELSE JsonText(p.doc[1])

FrameBytes(f) == f.f1 \o f.f2 \o f.f3 \o PayloadBytes(f.payload)

\* [varint len][varint 0x00][varint strlen][utf8 JSON bytes]
WellFramed(payload) ==
    [f1 |-> encode_u32(1 + Len(encode_u32(Len(PayloadBytes(payload))))
                         + Len(PayloadBytes(payload))),
     f2 |-> encode_u32(0),
     f3 |-> encode_u32(Len(PayloadBytes(payload))),
     payload |-> payload]

\* varints of 1 to 5 bytes, continuation bit on all but the last byte
Varints ==
    {Repeat(128, n) \o <<1>> : n \in 0..4}

RECURSIVE SeqsUpTo(_, _)
SeqsUpTo(S, n) ==
    IF n = 0 THEN {<<>>}
    ELSE LET shorter == SeqsUpTo(S, n - 1)
         IN  shorter \cup {Append(q, x) : q \in shorter, x \in S}

\* arbitrary payload bytes: '"' and a byte with the high bit set
Payloads == {Junk(b) : b \in SeqsUpTo({34, 195}, MaxPayloadLen)}

ArbitraryFrames ==
    [f1 : Varints, f2 : Varints, f3 : Varints, payload : Payloads]

Peer(f, flood, sizes, short) ==
    [frame |-> f, delivered |-> 0, flood |-> flood, sizes |-> sizes,
     short |-> short]

\* the bytes of the frame the peer has yet to deliver
Pending(peer) == Drop(FrameBytes(peer.frame), peer.delivered)

\* every pending byte is there when a read returns
Whole == {ScratchSize}
\* a read can end after any byte of the stream
AnyCut == {1, 2, ScratchSize}

AcceptedDoc == MOTD(PlayerCap, ProtocolVersion, Some(FavPng))

\* the peers of the scanner with several endpoints
ScanPeers ==
    {Peer(WellFramed(Doc(m)), FALSE, Whole, FALSE) :
        m \in {AcceptedDoc, MOTD(20, ProtocolVersion, Some(FavPng))}}

\* the peers of a single probe
ProbePeers ==
    {Peer(f, FALSE, {1, ScratchSize}, FALSE) : f \in ArbitraryFrames}
    \cup {Peer(WellFramed(Doc(m)), FALSE, Whole, FALSE) : m \in Documents}
    \cup {Peer(WellFramed(Doc(AcceptedDoc)), fl, AnyCut, sh) :
            fl \in BOOLEAN, sh \in BOOLEAN}

\* the peers of the probes whose read loop is followed to its end
LoopPeers ==
    {Peer(WellFramed(Doc(AcceptedDoc)), fl, AnyCut, FALSE) :
        fl \in BOOLEAN}

Hosts == {<<49, 48, 46, 48, 46, 48, 46, 49>>, <<49, 48, 46, 48, 46, 48, 46, 50>>}
Ports == {25565, 25566}
Endpoints == [ip : Hosts, port : Ports]

EndpointLists == UNION {[1..n -> Endpoints] : n \in 0..MaxEndpoints}

\* a host name of n bytes: labels of 'a', a dot after every 63 of them
HostName(n) == [i \in 1..n |-> IF i % 64 = 0 THEN 46 ELSE 97]

\* host names around the lengths at which the packet length and the string
\* length need a second varint byte
PacketHosts == {HostName(n) : n \in {1, 8} \cup 119..MaxHostLen}
PacketPorts == {1, 255, 256, 25565, 65535}
PacketEndpoints == [ip : PacketHosts, port : PacketPorts]

\* the peer of the probes whose packets are examined
PacketPeers == {Peer(WellFramed(Doc(AcceptedDoc)), FALSE, Whole, FALSE)}

Paths(eps) ==
    UNION {{json_path(eps[i].ip), png_path(eps[i].ip)} : i \in DOMAIN eps}

----------------------------------------------------------------------------
(* Initial states                                                           *)

InitWith(builds, lists, peers) ==
    /\ debug \in builds
    /\ endpoints \in lists
    /\ srv \in [DOMAIN endpoints -> peers]
    /\ main = "start"
    /\ futures = <<>>
    /\ pc = <<>>
    /\ err = <<>>
    /\ sent = <<>>
    /\ response = <<>>
    /\ result = <<>>
    /\ wclosed = <<>>
    /\ motd = <<>>
    /\ made = <<>>
    /\ wrote = <<>>
    /\ files = [p \in Paths(endpoints) |-> None]

\* the scanner on any input list
Init == InitWith(BOOLEAN, EndpointLists, ScanPeers)

\* one probe against any peer
InitProbe ==
    InitWith({FALSE},
             {<<[ip |-> <<49, 48, 46, 48, 46, 48, 46, 49>>, port |-> 25565]>>},
             ProbePeers)

\* one probe against a peer that sends the status response, or never stops
InitLoop ==
    InitWith({FALSE},
             {<<[ip |-> <<49, 48, 46, 48, 46, 48, 46, 49>>, port |-> 25565]>>},
             LoopPeers)

\* one probe of any host and port against a peer that sends the response
InitPacket ==
    InitWith({FALSE}, {<<e>> : e \in PacketEndpoints}, PacketPeers)

----------------------------------------------------------------------------
(* main                                                                     *)

Returned == {"Accepted", "Rejected", "Failed"}
Ended == Returned \cup {"Panicked", "Dropped"}

\* futures.push(async { perform_scan(..).await.unwrap() }) for every port of
\* every entry, truncate(1) in a debug build, create_dir("data") whose error
\* is ignored; the futures are first polled by join_all
MainSetup ==
    /\ main = "start"
    /\ main' = "join"
    /\ futures' = IF debug THEN Take(endpoints, Min(1, Len(endpoints)))
                  ELSE endpoints
    /\ pc' = [t \in DOMAIN futures' |-> "connect"]
    /\ err' = [t \in DOMAIN futures' |-> "none"]
    /\ sent' = [t \in DOMAIN futures' |-> <<>>]
    /\ response' = [t \in DOMAIN futures' |-> <<>>]
    /\ result' = [t \in DOMAIN futures' |-> [kind |-> "none", len |-> 0]]
    /\ wclosed' = [t \in DOMAIN futures' |-> FALSE]
    /\ motd' = [t \in DOMAIN futures' |-> None]
    /\ made' = [t \in DOMAIN futures' |-> {}]
    /\ wrote' = [t \in DOMAIN futures' |-> {}]
    /\ UNCHANGED <<debug, endpoints, srv, files>>

\* join_all(futures).await; Ok(()): every future has returned from unwrap()
MainFinish ==
    /\ main = "join"
    /\ \A t \in DOMAIN pc : pc[t] \in {"Accepted", "Rejected"}
    /\ main' = "done"
    /\ UNCHANGED <<debug, endpoints, futures, pc, err, srv, sent,
                   response, result, wclosed, motd, made, wrote, files>>

----------------------------------------------------------------------------
(* How a step of perform_scan ends                                          *)

\* the probe goes on to its next .await, or returns Ok(()) to unwrap()
Continue(t, next) ==
    /\ pc' = [pc EXCEPT ![t] = next]
    /\ err' = err
    /\ main' = main

\* a panic inside the future unwinds through join_all and main: the futures
\* that have not finished are dropped where they stand
unwind(t, how) ==
    [u \in DOMAIN pc |->
        IF u = t THEN how ELSE IF pc[u] \in Ended THEN pc[u] ELSE "Dropped"]

\* `?` returns the error from perform_scan and unwrap() panics on it
Fail(t, e) ==
    /\ pc' = unwind(t, "Failed")
    /\ err' = [err EXCEPT ![t] = e]
    /\ main' = "panicked"

\* perform_scan itself panics
Panic(t, e) ==
    /\ pc' = unwind(t, "Panicked")
    /\ err' = [err EXCEPT ![t] = e]
    /\ main' = "panicked"

----------------------------------------------------------------------------
(* perform_scan                                                             *)

\* join_all polls future t, which stands at `where`
at(t, where) == main = "join" /\ t \in DOMAIN pc /\ pc[t] = where

\* TcpStream::connect((ip, port)).await?
Connect(t) ==
    /\ at(t, "connect")
    /\ \E ok \in BOOLEAN :
        IF ok THEN Continue(t, "write_handshake") ELSE Fail(t, "ConnectError")
    /\ UNCHANGED <<debug, endpoints, futures, srv, sent, response,
                   result, wclosed, motd, made, wrote, files>>

\* stream.write(buf): the number of bytes accepted, or -1 for an error
write_results(peer, buf) ==
    {-1, Len(buf)} \cup (IF peer.short THEN 1..(Len(buf) - 1) ELSE {})

\* stream.write(&handshake).await?
WriteHandshake(t) ==
    /\ at(t, "write_handshake")
    /\ \E n \in write_results(srv[t], handshake(futures[t].ip, futures[t].port)) :
        IF n = -1
        THEN Fail(t, "WriteError") /\ sent' = sent
        ELSE /\ sent' = [sent EXCEPT ![t] =
                    @ \o Take(handshake(futures[t].ip, futures[t].port), n)]
             /\ Continue(t, "write_request")
    /\ UNCHANGED <<debug, endpoints, futures, srv, response,
                   result, wclosed, motd, made, wrote, files>>

\* stream.write(&request).await?
WriteRequest(t) ==
    /\ at(t, "write_request")
    /\ \E n \in write_results(srv[t], request) :
        IF n = -1
        THEN Fail(t, "WriteError") /\ sent' = sent
        ELSE /\ sent' = [sent EXCEPT ![t] = @ \o Take(request, n)]
             /\ Continue(t, "read")
    /\ UNCHANGED <<debug, endpoints, futures, srv, response,
                   result, wclosed, motd, made, wrote, files>>

\* what timeout(500 ms, stream.read(&mut buffer)) can yield: Ok(Ok(len)) with
\* len bytes of pending data, Ok(Ok(0)) at end of stream, Ok(Err(_)) on a
\* transport error, Err(Elapsed) when nothing arrives in time
read_results(peer) ==
    (IF Pending(peer) # <<>>
     THEN {[kind |-> "ok", len |-> Min(Min(k, ScratchSize), Len(Pending(peer)))] :
            k \in peer.sizes}
     ELSE IF peer.flood
     THEN {[kind |-> "ok", len |-> Min(k, ScratchSize)] : k \in peer.sizes}
     ELSE {})
    \cup
    (IF peer.flood THEN {}
     ELSE {[kind |-> "ok", len |-> 0], [kind |-> "err", len |-> 0],
           [kind |-> "elapsed", len |-> 0]})

\* the whole scratch buffer, the bytes behind the first len still zero
chunk_whole_buffer(peer, len) ==
    (IF Pending(peer) # <<>> THEN Take(Pending(peer), len) ELSE Repeat(65, len))
        \o Repeat(0, ScratchSize - len)

\* the bytes a read of len bytes leaves in buffer[..len]
chunk(peer, len) ==
    IF Pending(peer) # <<>> THEN Take(Pending(peer), len) ELSE Repeat(65, len)

\* the accumulator replaced by the latest read
put_overwriting(resp, peer, bytes) == bytes

\* response.put(&buffer[..len]); of an endless peer only the first FloodCap
\* bytes behind the frame are recorded: its probe never leaves the loop
put(resp, peer, bytes) ==
    IF peer.flood
    THEN Take(resp \o bytes,
              Min(Len(resp \o bytes), Len(FrameBytes(peer.frame)) + FloodCap))
    ELSE resp \o bytes

\* a loop that breaks on end of stream only and tries again after a timeout
\* or a transport error
loops_retrying(r) == r.kind # "ok" \/ r.len # 0

\* whether the loop goes round again after this result
loops(r) == r.kind = "ok" /\ r.len # 0

\* one turn of `while let Ok(result) = timeout(..).await { match result .. }`
Read(t) ==
    /\ at(t, "read")
    /\ \E r \in read_results(srv[t]) :
        /\ result' = [result EXCEPT ![t] = r]
        /\ IF loops(r)
           THEN /\ response' = [response EXCEPT ![t] =
                        put(@, srv[t], chunk(srv[t], r.len))]
                /\ srv' = [srv EXCEPT ![t].delivered =
                        Min(@ + r.len, Len(FrameBytes(srv[t].frame)))]
                /\ Continue(t, "read")
           ELSE /\ UNCHANGED <<response, srv>>
                /\ Continue(t, "strip")
    /\ UNCHANGED <<debug, endpoints, futures, sent, wclosed, motd,
                   made, wrote, files>>

\* response.freeze() and the stripping loops
Strip(t) ==
    /\ at(t, "strip")
    /\ response' = [response EXCEPT ![t] = strip(@, 0).response]
    /\ IF strip(response[t], 0).panic
       THEN Panic(t, "IndexOutOfBounds")
       ELSE Continue(t, "shutdown")
    /\ UNCHANGED <<debug, endpoints, futures, srv, sent, result,
                   wclosed, motd, made, wrote, files>>

\* stream.shutdown().await?
Shutdown(t) ==
    /\ at(t, "shutdown")
    /\ \E ok \in BOOLEAN :
        IF ok
        THEN wclosed' = [wclosed EXCEPT ![t] = TRUE] /\ Continue(t, "decode")
        ELSE wclosed' = wclosed /\ Fail(t, "ShutdownError")
    /\ UNCHANGED <<debug, endpoints, futures, srv, sent, response,
                   result, motd, made, wrote, files>>

\* serde_json::from_slice(&response)? and the filter
Validate(t) ==
    /\ at(t, "decode")
    /\ motd' = [motd EXCEPT ![t] = from_slice(response[t])]
    /\ IF from_slice(response[t]) = None
       THEN Fail(t, "PayloadDecodeError")
       ELSE IF accepts(from_slice(response[t])[1])
            THEN Continue(t, "create_json")
            ELSE Continue(t, "Rejected")
    /\ UNCHANGED <<debug, endpoints, futures, srv, sent, response,
                   result, wclosed, made, wrote, files>>

\* File::create succeeds or fails (a missing directory "data", whose failed
\* creation main ignores, or any other I/O error)
create_results == BOOLEAN

\* tokio::fs::File::create(format!("data/{}.json", ip)).await?
CreateJson(t) ==
    /\ at(t, "create_json")
    /\ \E ok \in create_results :
        IF ok
        THEN /\ files' = [files EXCEPT ![json_path(futures[t].ip)] = Some(<<>>)]
             /\ made' = [made EXCEPT ![t] = @ \cup {json_path(futures[t].ip)}]
             /\ Continue(t, "write_json")
        ELSE UNCHANGED <<files, made>> /\ Fail(t, "PersistError")
    /\ UNCHANGED <<debug, endpoints, futures, srv, sent, response,
                   result, wclosed, motd, wrote>>

\* the write of the JSON file with its result discarded: the probe goes on to
\* the image whether or not the text was written
WriteJson_unchecked(t) ==
    /\ at(t, "write_json")
    /\ \E ok \in BOOLEAN :
        /\ IF ok
           THEN /\ files' = [files EXCEPT ![json_path(futures[t].ip)] =
                        Some(write_at_start(@[1], to_string_pretty(motd[t][1])))]
                /\ wrote' = [wrote EXCEPT ![t] = @ \cup {json_path(futures[t].ip)}]
           ELSE UNCHANGED <<files, wrote>>
        /\ Continue(t, IF motd[t][1].favicon = None THEN "Accepted"
                       ELSE "create_png")
    /\ UNCHANGED <<debug, endpoints, futures, srv, sent, response,
                   result, wclosed, motd, made>>

\* file.write_all(serde_json::to_string_pretty(&response)?.as_bytes()).await?
WriteJson(t) ==
    /\ at(t, "write_json")
    /\ \E ok \in BOOLEAN :
        IF ok
        THEN /\ files' = [files EXCEPT ![json_path(futures[t].ip)] =
                    Some(write_at_start(@[1], to_string_pretty(motd[t][1])))]
             /\ wrote' = [wrote EXCEPT ![t] = @ \cup {json_path(futures[t].ip)}]
             /\ Continue(t, IF motd[t][1].favicon = None THEN "Accepted"
                            ELSE "create_png")
        ELSE UNCHANGED <<files, wrote>> /\ Fail(t, "PersistError")
    /\ UNCHANGED <<debug, endpoints, futures, srv, sent, response,
                   result, wclosed, motd, made>>

\* tokio::fs::File::create(format!("data/{}.png", ip)).await?
CreatePng(t) ==
    /\ at(t, "create_png")
    /\ \E ok \in create_results :
        IF ok
        THEN /\ files' = [files EXCEPT ![png_path(futures[t].ip)] = Some(<<>>)]
             /\ made' = [made EXCEPT ![t] = @ \cup {png_path(futures[t].ip)}]
             /\ Continue(t, "write_png")
        ELSE UNCHANGED <<files, made>> /\ Fail(t, "PersistError")
    /\ UNCHANGED <<debug, endpoints, futures, srv, sent, response,
                   result, wclosed, motd, wrote>>

\* file.write_all(&base64::decode(&favicon[22..])?).await?; Ok(())
WritePng(t) ==
    /\ at(t, "write_png")
    /\ \E ok \in BOOLEAN :
        IF ~favicon_in_range(motd[t][1].favicon[1])
        THEN UNCHANGED <<files, wrote>> /\ Panic(t, "SliceOutOfBounds")
        ELSE IF ~base64_decode(Drop(motd[t][1].favicon[1], FaviconPrefixLen)).ok
        THEN UNCHANGED <<files, wrote>> /\ Fail(t, "Base64Error")
        ELSE IF ok
        THEN /\ files' = [files EXCEPT ![png_path(futures[t].ip)] =
                    Some(write_at_start(@[1],
                        base64_decode(Drop(motd[t][1].favicon[1],
                                           FaviconPrefixLen)).bytes))]
             /\ wrote' = [wrote EXCEPT ![t] = @ \cup {png_path(futures[t].ip)}]
             /\ Continue(t, "Accepted")
        ELSE UNCHANGED <<files, wrote>> /\ Fail(t, "PersistError")
    /\ UNCHANGED <<debug, endpoints, futures, srv, sent, response,
                   result, wclosed, motd, made>>

\* one poll of future t by join_all
Step(t) ==
    \/ Connect(t)
    \/ WriteHandshake(t)
    \/ WriteRequest(t)
    \/ Read(t)
    \/ Strip(t)
    \/ Shutdown(t)
    \/ Validate(t)
    \/ CreateJson(t)
    \/ WriteJson(t)
    \/ CreatePng(t)
    \/ WritePng(t)

Tasks == 1..MaxEndpoints

Next ==
    \/ MainSetup
    \/ MainFinish
    \/ \E t \in Tasks :
        \/ Connect(t)
        \/ WriteHandshake(t)
        \/ WriteRequest(t)
        \/ Read(t)
        \/ Strip(t)
        \/ Shutdown(t)
        \/ Validate(t)
        \/ CreateJson(t)
        \/ WriteJson(t)
        \/ CreatePng(t)
        \/ WritePng(t)

\* the scanner on any input list
Spec == Init /\ [][Next]_vars

\* one probe against any peer
SpecProbe == InitProbe /\ [][Next]_vars

\* one probe of any host and port
SpecPacket == InitPacket /\ [][Next]_vars

\* the runtime keeps driving main, and join_all keeps polling every future
\* that can take a step; a read under timeout(500 ms) always yields a result
Fairness ==
    /\ WF_vars(MainSetup)
    /\ WF_vars(MainFinish)
    /\ \A t \in Tasks : WF_vars(Step(t))

\* one probe in the read loop, under that scheduling
FairSpecLoop == InitLoop /\ [][Next]_vars /\ Fairness

----------------------------------------------------------------------------
(* Properties of main and of sibling probes (specification Spec)            *)

\* C1: a failure of one endpoint's probe is local to it: no other probe is
\* ever cancelled or aborted (dropped before it has returned) because a
\* sibling failed.
C1_FailureIsLocal ==
    \A t \in DOMAIN pc : pc[t] # "Dropped"

\* C2: main never ends abnormally, whatever the probes' outcomes are.
C2_MainSucceeds ==
    main # "panicked"

\* C10: two probes for distinct (host, port) endpoints never create or write
\* the same output path.
C10_DistinctEndpointsDistinctPaths ==
    \A t \in DOMAIN pc : \A u \in DOMAIN pc :
        futures[t] # futures[u]
            => (made[t] \cup wrote[t]) \cap (made[u] \cup wrote[u]) = {}

----------------------------------------------------------------------------
(* Properties of one probe (specification SpecProbe)                        *)

\* the probe has run the stripping loops (to their end or to a panic)
AfterStrip(t) ==
    \/ pc[t] \in {"shutdown", "decode", "create_json", "write_json",
                  "create_png", "write_png", "Accepted", "Rejected", "Panicked"}
    \/ pc[t] = "Failed" /\ err[t] \notin {"ConnectError", "WriteError"}

\* the bytes the peer has delivered to the reads so far
Delivered(t) == Take(FrameBytes(srv[t].frame), srv[t].delivered)

RECURSIVE complete_fields(_)
\* how many varints are complete at the front of a buffer
complete_fields(buf) ==
    IF \A i \in 1..Len(buf) : ~is_last(buf[i]) THEN 0
    ELSE 1 + complete_fields(
                Drop(buf, CHOOSE i \in 1..Len(buf) :
                        is_last(buf[i]) /\ \A j \in 1..(i - 1) : ~is_last(buf[j])))

\* the three predicates of the acceptance filter, as the specification
\* states them
PassesFilter(m) ==
    m.players.max = 50 /\ m.favicon # None /\ m.version.protocol = 760

\* C3: when the accumulated buffer is three valid varints followed by payload
\* bytes, stripping removes exactly the three varints: it ends normally and
\* the remaining tail is the payload.
C3_StripLeavesPayload ==
    \A t \in DOMAIN pc :
        (AfterStrip(t) /\ ~srv[t].flood /\ Pending(srv[t]) = <<>>)
            => (/\ pc[t] # "Panicked"
                /\ response[t] = PayloadBytes(srv[t].frame.payload))

\* C4: when fewer than three varint fields complete before the accumulated
\* buffer ends, stripping ends with the error FrameUnderrun and never
\* panics on an index outside the buffer.
C4_TruncatedIsUnderrun ==
    \A t \in DOMAIN pc :
        (AfterStrip(t) /\ ~srv[t].flood /\ complete_fields(Delivered(t)) < 3)
            => (pc[t] = "Failed" /\ err[t] = "FrameUnderrun")

\* C5: a probe creates or writes a file only if its decoded payload has
\* players.max = 50, a favicon and version.protocol = 760; a decoded payload
\* that fails one of the three ends the probe in Rejected (Ok returned, main
\* unharmed by it) with no file created or written.
C5_AcceptanceFilter ==
    \A t \in DOMAIN pc :
        /\ (made[t] \cup wrote[t] # {})
                => (motd[t] # None /\ PassesFilter(motd[t][1]))
        /\ (motd[t] # None /\ ~PassesFilter(motd[t][1]))
                => (pc[t] = "Rejected" /\ err[t] = "none"
                        /\ made[t] = {} /\ wrote[t] = {})

\* a probe rejected for players.max alone, favicon and protocol passing
C5_Witness ==
    \E t \in DOMAIN pc :
        /\ pc[t] = "Rejected"
        /\ motd[t] # None
        /\ motd[t][1].players.max = 20
        /\ motd[t][1].favicon # None
        /\ motd[t][1].version.protocol = 760
        /\ made[t] = {}

\* C6: a probe whose payload passes the three predicates, and that meets no
\* storage I/O error, ends Accepted with both the JSON file and the image
\* file written.
C6_AcceptedWritesBoth ==
    \A t \in DOMAIN pc :
        (/\ motd[t] # None
         /\ PassesFilter(motd[t][1])
         /\ pc[t] \in {"Accepted", "Rejected", "Failed", "Panicked"}
         /\ err[t] # "PersistError")
            => (/\ pc[t] = "Accepted"
                /\ wrote[t] = {json_path(futures[t].ip), png_path(futures[t].ip)})

\* C7: when the peer never sends a byte and never closes, the probe leaves
\* the read loop on the idle timeout with an empty buffer and ends in a
\* failure returned as an error value (frame underrun or payload decode
\* failure), without panicking and without writing a file.
C7_SilentPeerFails ==
    \A t \in DOMAIN pc :
        (/\ result[t].kind = "elapsed"
         /\ Delivered(t) = <<>>
         /\ pc[t] \in {"Accepted", "Rejected", "Failed", "Panicked"})
            => (/\ pc[t] = "Failed"
                /\ err[t] \in {"FrameUnderrun", "PayloadDecodeError"}
                /\ made[t] = {} /\ wrote[t] = {})

\* C9: when a read of the loop fails with a transport error, the probe
\* aborts with ReadError: the accumulated bytes are never stripped or
\* decoded and no file is written.
C9_ReadErrorAborts ==
    \A t \in DOMAIN pc :
        result[t].kind = "err"
            => (/\ pc[t] = "Failed" /\ err[t] = "ReadError"
                /\ motd[t] = None /\ made[t] = {} /\ wrote[t] = {})

\* the probe is in the read loop
InLoop(t) == t \in DOMAIN pc /\ pc[t] = "read"

\* C8: whatever the peer does after the connection is established, a probe
\* in the read loop eventually leaves it.
C8_LeavesReadLoop ==
    \A t \in Tasks : InLoop(t) ~> ~InLoop(t)

\* C8, amended: a probe in the read loop eventually leaves it and ends (it
\* returns, or it panics) unless the peer keeps sending bytes within every
\* idle-timeout window and never closes.
C8_EndsUnlessFlooded ==
    \A t \in Tasks :
        (InLoop(t) /\ ~srv[t].flood) ~> (t \in DOMAIN pc /\ pc[t] \in Ended)

\* a probe whose peer went silent has left the read loop on the idle timeout
\* and has ended
C8_Witness ==
    \E t \in DOMAIN pc :
        ~srv[t].flood /\ result[t].kind = "elapsed" /\ pc[t] \in Ended

----------------------------------------------------------------------------
(* Order of the steps of one probe (specification SpecProbe)                *)

\* the steps that may follow a step in the linear sequence Connecting,
\* Handshaking (handshake write, status-request write), AwaitingResponse,
\* Stripping, Validating (shutdown, decode, persist), and the three terminal
\* states; a terminal state has no successor
Successors(p) ==
    CASE p = "connect"         -> {"write_handshake", "Failed"}
      [] p = "write_handshake" -> {"write_request", "Failed"}
      [] p = "write_request"   -> {"read", "Failed"}
      [] p = "read"            -> {"strip", "Failed"}
      [] p = "strip"           -> {"shutdown", "Failed"}
      [] p = "shutdown"        -> {"decode", "Failed"}
      [] p = "decode"          -> {"create_json", "Rejected", "Failed"}
      [] p = "create_json"     -> {"write_json", "Failed"}
      [] p = "write_json"      -> {"create_png", "Accepted", "Failed"}
      [] p = "create_png"      -> {"write_png", "Failed"}
      [] p = "write_png"       -> {"Accepted", "Failed"}
      [] OTHER                 -> {}

\* C11: within one probe the steps occur only in the order Connecting,
\* Handshaking (handshake write, then status-request write), AwaitingResponse
\* (the read loop), Stripping, Validating, then exactly one of Accepted,
\* Rejected, Failed: every step of a probe either stays in the read loop or
\* moves to the next step of that sequence or to a terminal state, never
\* backward, never out of a terminal state, never to any other end.
C11_LinearOrder ==
    [][\A t \in DOMAIN pc :
        /\ t \in DOMAIN pc'
        /\ \/ pc'[t] = pc[t] /\ (sent'[t] = sent[t] \/ pc[t] = "read")
           \/ pc'[t] \in Successors(pc[t])]_vars

\* the same order with the abnormal ends of a probe admitted beside the three
\* terminal states
C11_OrderOrAbort ==
    [][\A t \in DOMAIN pc :
        /\ t \in DOMAIN pc'
        /\ \/ pc'[t] = pc[t] /\ (sent'[t] = sent[t] \/ pc[t] = "read")
           \/ pc'[t] \in Successors(pc[t])
           \/ pc[t] \notin Ended /\ pc'[t] \in {"Panicked", "Dropped"}]_vars

----------------------------------------------------------------------------
(* The two outbound packets (specification SpecProbe)                       *)

\* both write calls have returned Ok and the probe has gone on to the read
\* loop (and possibly further)
AfterWrites(t) ==
    \/ pc[t] \in {"read", "strip", "shutdown", "decode", "create_json",
                  "write_json", "create_png", "write_png", "Accepted",
                  "Rejected"}
    \/ pc[t] \in {"Failed", "Panicked"}
            /\ err[t] \notin {"ConnectError", "WriteError"}

\* C12: each outbound packet is sent as one atomic write: whenever both write
\* calls returned success and the probe went on to the read loop, the bytes
\* the connection was given are exactly the complete Handshake packet
\* followed by the complete StatusRequest packet, no byte missing.
C12_WritesAreAtomic ==
    \A t \in DOMAIN pc :
        AfterWrites(t)
            => sent[t] = handshake(futures[t].ip, futures[t].port) \o request

----------------------------------------------------------------------------
(* Closing the write half (specification SpecProbe)                         *)

\* the read loop of the probe has ended and so has the probe
EndedAfterLoop(t) ==
    pc[t] \in {"Accepted", "Rejected", "Failed", "Panicked"}
        /\ result[t].kind # "none"

\* C13: after the read loop ends the probe always shuts down the write half
\* of the connection, whatever the accumulated response holds (empty,
\* truncated, malformed or complete), before it reaches its end: no probe
\* ends after the loop without the shutdown having completed or having been
\* refused by the transport.
C13_WriteHalfClosed ==
    \A t \in DOMAIN pc :
        EndedAfterLoop(t) => (wclosed[t] \/ err[t] = "ShutdownError")

----------------------------------------------------------------------------
(* The packets on the wire (specification SpecPacket)                       *)

RECURSIVE decode_varint(_)
\* reads the varint at the front of a byte string: 7 bits per byte, low
\* group first, up to the first byte without the continuation bit; len = 0
\* when the string ends before such a byte
decode_varint(s) ==
    IF s = <<>> THEN [value |-> 0, len |-> 0]
    ELSE IF s[1] < 128 THEN [value |-> s[1], len |-> 1]
    ELSE LET r == decode_varint(Drop(s, 1))
         IN  [value |-> (s[1] - 128) + 128 * r.value,
              len   |-> IF r.len = 0 THEN 0 ELSE r.len + 1]

\* the bytes behind a Handshake length prefix are the type id 0x00, the
\* protocol version varint, the length-prefixed host, the port as two bytes
\* big-endian and the next_state varint 1
IsHandshakeBody(body, ip, port) ==
    LET afterId  == Drop(body, 1)
        version  == decode_varint(afterId)
        afterVer == Drop(afterId, version.len)
        strlen   == decode_varint(afterVer)
        afterLen == Drop(afterVer, strlen.len)
        afterIp  == Drop(afterLen, strlen.value)
    IN  /\ Len(body) >= 1 /\ body[1] = 0
        /\ version.len > 0 /\ version.value = 760
        /\ strlen.len > 0 /\ strlen.value = Len(ip)
        /\ Take(afterLen, strlen.value) = ip
        /\ Len(afterIp) = 3
        /\ afterIp[1] * 256 + afterIp[2] = port
        /\ afterIp[3] = 1

\* C14: for every host string and port, the length prefix of the Handshake
\* packet the probe writes decodes to exactly the number of bytes that
\* follow it in the packet (type id, protocol version varint, length-prefixed
\* host, 2-byte big-endian port, next_state varint), and the StatusRequest
\* packet behind it is exactly the two bytes 0x01, 0x00 (read off the bytes
\* of a connection that took both packets whole).
C14_LengthPrefix ==
    \A t \in DOMAIN pc :
        (AfterWrites(t) /\ ~srv[t].short)
            => LET prefix == decode_varint(sent[t])
                   rest   == Drop(sent[t], prefix.len)
               IN  /\ prefix.len > 0
                   /\ prefix.value <= Len(rest)
                   /\ IsHandshakeBody(Take(rest, prefix.value),
                                      futures[t].ip, futures[t].port)
                   /\ Drop(rest, prefix.value) = <<1, 0>>

\* both packets of a probe are on the wire, the host name is long enough
\* for the length prefix and the string length to take two bytes each
C14_Witness ==
    \E t \in DOMAIN pc :
        /\ AfterWrites(t)
        /\ Len(futures[t].ip) >= 128
        /\ futures[t].port = 25565
        /\ decode_varint(sent[t]).len = 2

----------------------------------------------------------------------------
(* The end-to-end scenario (specification SpecProbe)                        *)

\* the server has replied with the one well-formed frame of the accepted
\* document, every byte of it has been read, and the server has closed the
\* connection: the last read returned 0
RepliedAndClosed(t) ==
    /\ srv[t].frame = WellFramed(Doc(AcceptedDoc))
    /\ ~srv[t].flood
    /\ Pending(srv[t]) = <<>>
    /\ result[t] = [kind |-> "ok", len |-> 0]

\* C15: when the server replies with one well-formed frame
\* [varint len][0x00][varint strlen][JSON] whose JSON has players.max 50,
\* version.protocol 760 and favicon "data:image/png;base64,AAAA", delivered
\* in any split into reads, and then closes the connection, a probe that
\* meets no error of the transport or of the storage ends Accepted, having
\* written the JSON file with that payload (pretty-printed) and an image
\* file of exactly 3 bytes.
C15_EndToEnd ==
    \A t \in DOMAIN pc :
        (/\ RepliedAndClosed(t)
         /\ pc[t] \in {"Accepted", "Rejected", "Failed", "Panicked"}
         /\ err[t] \notin {"ShutdownError", "PersistError"})
            => (/\ pc[t] = "Accepted"
                /\ wrote[t] = {json_path(futures[t].ip), png_path(futures[t].ip)}
                /\ files[json_path(futures[t].ip)]
                        = Some(to_string_pretty(srv[t].frame.payload.doc[1]))
                /\ files[png_path(futures[t].ip)] = Some(<<0, 0, 0>>))

\* the scenario has run to its end over a connection whose reads can stop
\* after any byte, and both files are there
C15_Witness ==
    \E t \in DOMAIN pc :
        /\ RepliedAndClosed(t)
        /\ srv[t].sizes = AnyCut
        /\ pc[t] = "Accepted"
        /\ files[png_path(futures[t].ip)] = Some(<<0, 0, 0>>)

----------------------------------------------------------------------------
(* The varint encoding of put_vi (specification SpecPacket)                 *)

\* the values handed to the encoder: every small value, and the values
\* around 2^7, 2^14, 2^21, 2^28 and the largest the checker's integers hold
VarintValues ==
    0..MaxDenseValue
        \cup {16383, 16384, 16385, 2097151, 2097152, 2097153,
              268435455, 268435456, 268435457, 2147483646, 2147483647}

\* the encoding of v has 1 to 5 bytes, the continuation bit on every byte
\* but the last, no zero group at the end, and its 7-bit groups, low group
\* first, are those of v
IsMinimalVarint(bytes, v) ==
    /\ Len(bytes) \in 1..5
    /\ \A i \in 1..(Len(bytes) - 1) : bytes[i] >= 128 /\ bytes[i] < 256
    /\ bytes[Len(bytes)] >= 0 /\ bytes[Len(bytes)] < 128
    /\ Len(bytes) > 1 => bytes[Len(bytes)] # 0
    /\ decode_varint(bytes) = [value |-> v, len |-> Len(bytes)]

\* C16: the varint encoding put_vi uses for every length and type field is
\* minimal and non-malleable: a value is emitted low 7-bit group first, the
\* continuation bit set on every byte but the last, in 1 to 5 bytes, with no
\* trailing zero group; encode(0) = [0x00], encode(127) = [0x7F],
\* encode(128) = [0x80, 0x01]; different values never share an encoding and
\* a value has the one encoding of that form.
C16_VarintMinimal ==
    /\ put_vi(<<>>, 0) = <<0>>
    /\ put_vi(<<>>, 127) = <<127>>
    /\ put_vi(<<>>, 128) = <<128, 1>>
    /\ \A v \in VarintValues : IsMinimalVarint(put_vi(<<>>, v), v)
    /\ \A t \in DOMAIN pc :
        (AfterWrites(t) /\ ~srv[t].short)
            => IsMinimalVarint(Take(sent[t], decode_varint(sent[t]).len),
                               Len(sent[t]) - decode_varint(sent[t]).len - 2)

\* a probe has put the type id 0 as [0x00] and the length 128 of its host
\* name as [0x80, 0x01] on the wire
C16_Witness ==
    \E t \in DOMAIN pc :
        /\ AfterWrites(t)
        /\ Len(futures[t].ip) = 128
        /\ sent[t][3] = 0
        /\ SubSeq(sent[t], 6, 7) = <<128, 1>>

----------------------------------------------------------------------------
(* The response buffer (specification SpecProbe)                            *)

\* the bytes the successful non-empty reads have returned so far, in read
\* order: the part of the frame the peer has delivered and, of an endless
\* peer, the bytes 'A' it sent behind the frame (those that are recorded)
ReadSoFar(t) ==
    IF srv[t].flood /\ Len(response[t]) > srv[t].delivered
    THEN Delivered(t) \o Repeat(65, Len(response[t]) - srv[t].delivered)
    ELSE Delivered(t)

\* C17: at every point of the read loop the accumulated buffer is the
\* concatenation, in read order, of exactly the bytes the successful
\* non-empty reads returned so far, each read giving its first len bytes,
\* len at most 255: no byte is reordered, duplicated, dropped or
\* overwritten, and the buffer handed to the stripping loops is that
\* concatenation.
C17_BufferIsReadsInOrder ==
    \A t \in DOMAIN pc :
        pc[t] \in {"read", "strip"}
            => (/\ response[t] = ReadSoFar(t)
                /\ result[t].len <= 255)

\* a probe is in the read loop after at least two non-empty reads (a read
\* gave 1 or 2 bytes, the buffer holds 3) with more of the frame to come
C17_Witness ==
    \E t \in DOMAIN pc :
        /\ pc[t] = "read"
        /\ srv[t].sizes = AnyCut
        /\ result[t].len \in {1, 2}
        /\ Len(response[t]) = 3
        /\ Pending(srv[t]) # <<>>

----------------------------------------------------------------------------
(* Persistence of one probe (specification SpecProbe)                       *)

\* the probe has written its JSON file and has then met an error: creating
\* the image file, slicing or decoding the favicon, or writing the image
ImageStepFailed(t) ==
    json_path(futures[t].ip) \in wrote[t] /\ err[t] # "none"

\* C18: persistence is ordered and not transactional: within a probe the
\* JSON file is created and written before the image file is created; if
\* decoding or writing the image then fails, the probe ends in failure (an
\* error returned, or a panic), the JSON file it wrote stays in place
\* unchanged, and the image file is never written unless the same probe has
\* written the JSON file first.
C18_OrderedNoRollback ==
    \A t \in DOMAIN pc :
        /\ png_path(futures[t].ip) \in made[t] \cup wrote[t]
                => json_path(futures[t].ip) \in made[t] \cap wrote[t]
        /\ json_path(futures[t].ip) \in wrote[t]
                => files[json_path(futures[t].ip)]
                        = Some(to_string_pretty(motd[t][1]))
        /\ ImageStepFailed(t)
                => (/\ pc[t] \in {"Failed", "Panicked"}
                    /\ png_path(futures[t].ip) \notin wrote[t])

\* the favicon of an accepted payload did not decode: the probe has failed,
\* its JSON file is in place and the image file was created and left empty
C18_Witness ==
    \E t \in DOMAIN pc :
        /\ pc[t] = "Failed"
        /\ err[t] = "Base64Error"
        /\ files[json_path(futures[t].ip)] = Some(to_string_pretty(motd[t][1]))
        /\ files[png_path(futures[t].ip)] = Some(<<>>)

----------------------------------------------------------------------------
(* Stripping a response of the protocol's shape (specification SpecProbe)   *)

\* a varint of 1 to 5 bytes: the continuation bit on every byte but the last
IsVarintShape(v) ==
    /\ Len(v) \in 1..5
    /\ \A i \in 1..(Len(v) - 1) : v[i] >= 128
    /\ v[Len(v)] < 128

\* the shape of the protocol's response: an outer-length varint, a type id of
\* one byte, a string-length varint, and a payload of at least 2 bytes whose
\* second byte has its high bit clear
ProtocolShape(f) ==
    /\ IsVarintShape(f.f1)
    /\ Len(f.f2) = 1 /\ f.f2[1] < 128
    /\ IsVarintShape(f.f3)
    /\ Len(PayloadBytes(f.payload)) >= 2
    /\ PayloadBytes(f.payload)[2] < 128

\* C19: for every response buffer of the protocol's shape (a valid
\* outer-length varint of 1 to 5 bytes, a single-byte type id, a valid
\* string-length varint of 1 to 5 bytes, a payload of at least 2 bytes whose
\* second byte has its high bit clear) the stripping loops, which test the
\* byte at the index of the field counter, end without a panic and leave
\* exactly the payload bytes, for every combination of the two varint
\* lengths.
C19_ShapedResponseStrips ==
    \A t \in DOMAIN pc :
        (/\ AfterStrip(t)
         /\ ~srv[t].flood
         /\ Pending(srv[t]) = <<>>
         /\ ProtocolShape(srv[t].frame))
            => (/\ err[t] # "IndexOutOfBounds"
                /\ response[t] = PayloadBytes(srv[t].frame.payload))

\* the loops have stripped a buffer whose two varints take 5 bytes each and
\* whose payload starts with a byte that has the high bit set
C19_Witness ==
    \E t \in DOMAIN pc :
        /\ AfterStrip(t)
        /\ Pending(srv[t]) = <<>>
        /\ Len(srv[t].frame.f1) = 5
        /\ Len(srv[t].frame.f2) = 1
        /\ Len(srv[t].frame.f3) = 5
        /\ srv[t].frame.payload = Junk(<<195, 34>>)
        /\ response[t] = <<195, 34>>

====
